---- MODULE Spec2Model ----
(***************************************************************************)
(* Model of builder/backend/routes/health.py: the three dependency probes, *)
(* the four health endpoints and the dependencies they read (wall clock,   *)
(* relational store, cache server, in-process TFrameX registry).           *)
(*                                                                         *)
(* One client issues requests one at a time; the dependencies, the wall    *)
(* clock and the registry change concurrently with a request in flight.    *)
(* detailed_health is split at its blocking calls: the probes (lines       *)
(* 101-106), the metrics queries (108-121) and the second registry         *)
(* introspection with the composition of the response (123-168).           *)
(*                                                                         *)
(* Time is counted in units of 5 ms, so that round(uptime, 2) has values   *)
(* to round: an even number of units is a whole number of centiseconds,    *)
(* an odd one lies halfway between two.                                    *)
(***************************************************************************)
EXTENDS Integers, Sequences, FiniteSets, TLC

VARIABLES
    now,         \* time.time(): the wall clock, in units of 5 ms
    START_TIME,  \* module-level START_TIME (line 17)
    db,          \* state of the relational store behind engine / LocalSession
    redis,       \* state of the cache server
    REDIS_PORT,  \* os.getenv('REDIS_PORT'): "unset" or the variable's text
    registry,    \* the TFrameX application singleton: None until initialized
    pc,          \* position of the request in flight ("idle": none)
    signal,      \* probe call during which a non-Exception BaseException is raised
    loc,         \* locals of detailed_health between its steps
    accesses,    \* dependency accesses made so far by the current request
    resp,        \* response of the current request (NoResp while in flight)
    lastUptime   \* uptime reported by the latest earlier response, if any

vars == <<now, START_TIME, db, redis, REDIS_PORT, registry, pc, signal, loc,
          accesses, resp, lastUptime>>

(***************************************************************************)
(* Bounds and domains                                                      *)
(***************************************************************************)
MaxClock == 3

MaxUptimeSec == 7300

MaxHours == 25

StartClock == 1

DefaultPort == 6379

\* One second in clock units: 2 units to the centisecond.
UnitsPerSecond == 2 * 100

DbStates == {"up", "unreachable", "query_error", "missing_table"}

RedisStates == {"up", "refused", "timeout"}

PortValues == {"unset", "6379", "abc"}

ProbeNames == <<"database", "redis", "tframex">>

InterruptAt == {"none", "database", "redis", "tframex"}

Endpoints == {"health", "live", "ready", "detailed"}

None == << >>

Some(x) == <<x>>

(***************************************************************************)
(* External collaborators                                                  *)
(***************************************************************************)
\* The initialized application: its _agents and _tools stores.
TFrameXApp == [agents |-> {"assistant"}, tools |-> {"search", "calc"}]

\* get_tframex_app_instance(): the singleton, or a fault while it is not there.
get_tframex_app_instance(reg) ==
    IF reg = None
    THEN [fault |-> TRUE, msg |-> "'NoneType' object has no attribute '_agents'"]
    ELSE [fault |-> FALSE, app |-> reg[1]]

\* Row counts of the projects, flows and users tables.
RowCounts == [projects |-> 2, flows |-> 3, users |-> 1]

\* int(os.getenv('REDIS_PORT', 6379)): the default when unset, else the parsed text.
ParsePort(p) ==
    IF p = "unset" THEN [fault |-> FALSE, port |-> DefaultPort]
    ELSE IF p = "6379" THEN [fault |-> FALSE, port |-> 6379]
    ELSE [fault |-> TRUE,
          msg |-> "invalid literal for int() with base 10: '" \o p \o "'"]

(***************************************************************************)
(* Probes: a call returns a (status, message) pair, or raises             *)
(***************************************************************************)
Returned(ok, msg) == [raised |-> FALSE, val |-> <<ok, msg>>]

Raised == [raised |-> TRUE, val |-> <<FALSE, "">>]

check_database_connection(d, interrupted) ==
    IF interrupted THEN Raised
    ELSE IF d = "unreachable" THEN Returned(FALSE, "connection refused")
    ELSE IF d = "query_error" THEN Returned(FALSE, "error executing SELECT 1")
    ELSE Returned(TRUE, "Connected")

\* Variant: the client is built but never pinged.
check_redis_connection_noping(p, r, interrupted) ==
    IF interrupted THEN Raised
    ELSE IF ParsePort(p).fault THEN Returned(FALSE, ParsePort(p).msg)
    ELSE Returned(TRUE, "Connected")

check_redis_connection(p, r, interrupted) ==
    IF interrupted THEN Raised
    ELSE IF ParsePort(p).fault THEN Returned(FALSE, ParsePort(p).msg)
    ELSE IF r = "refused" THEN Returned(FALSE, "Error 111 connecting: Connection refused.")
    ELSE IF r = "timeout" THEN Returned(FALSE, "Timeout connecting to server")
    ELSE Returned(TRUE, "Connected")

\* Variant: the singleton is fetched outside the try block.
check_tframex_unguarded(reg, interrupted) ==
    IF interrupted \/ get_tframex_app_instance(reg).fault THEN Raised
    ELSE Returned(TRUE,
             ToString(Cardinality(reg[1].agents)) \o " agents, "
             \o ToString(Cardinality(reg[1].tools)) \o " tools registered")

check_tframex(reg, interrupted) ==
    IF interrupted THEN Raised
    ELSE LET got == get_tframex_app_instance(reg)
         IN IF got.fault THEN Returned(FALSE, got.msg)
            ELSE Returned(TRUE,
                     ToString(Cardinality(got.app.agents)) \o " agents, "
                     \o ToString(Cardinality(got.app.tools)) \o " tools registered")

(***************************************************************************)
(* Pure parts of the handlers                                              *)
(***************************************************************************)
\* time.time() - START_TIME
Elapsed == now - START_TIME

\* round(uptime, 2): the nearest centisecond, a tie going to the even one.
Round2(u) ==
    LET lower == u \div 2
    IN IF u % 2 = 0 THEN lower
       ELSE IF lower % 2 = 0 THEN lower ELSE lower + 1

\* Variant: the minutes are not reduced modulo the hour.
human_readable_nomod(uptime) ==
    LET h == uptime \div (3600 * UnitsPerSecond)
        m == uptime \div (60 * UnitsPerSecond)
        s == (uptime % (60 * UnitsPerSecond)) \div UnitsPerSecond
    IN ToString(h) \o "h " \o ToString(m) \o "m " \o ToString(s) \o "s"

\* f"{int(uptime // 3600)}h {int((uptime % 3600) // 60)}m {int(uptime % 60)}s"
human_readable(uptime) ==
    LET h == uptime \div (3600 * UnitsPerSecond)
        m == (uptime % (3600 * UnitsPerSecond)) \div (60 * UnitsPerSecond)
        s == (uptime % (60 * UnitsPerSecond)) \div UnitsPerSecond
    IN ToString(h) \o "h " \o ToString(m) \o "m " \o ToString(s) \o "s"

\* Variant: any() in place of all().
any_healthy(checks) == \E n \in DOMAIN checks : checks[n][1]

\* all(status for status, _ in checks.values())
all_healthy(checks) == \A n \in DOMAIN checks : checks[n][1]

readiness_status_code(checks) == IF all_healthy(checks) THEN 200 ELSE 503

readiness_response(checks) ==
    [endpoint |-> "ready",
     code     |-> readiness_status_code(checks),
     status   |-> IF all_healthy(checks) THEN "ready" ELSE "not_ready",
     checks   |-> [n \in DOMAIN checks |->
                     [status  |-> IF checks[n][1] THEN "pass" ELSE "fail",
                      message |-> checks[n][2]]]]

\* Variant: the registry probe is left out of the verdict.
detailed_all_two(l) == l.db[1] /\ l.redis[1]

\* all([db_status, redis_status, tframex_status])
detailed_all(l) == l.db[1] /\ l.redis[1] /\ l.tframex[1]

\* Variant: missing metrics count as a failure.
detailed_status_code_metrics(l) ==
    IF detailed_all(l) /\ l.db_metrics # None THEN 200 ELSE 503

detailed_status_code(l) == IF detailed_all(l) THEN 200 ELSE 503

detailed_status(l) == IF detailed_all(l) THEN "healthy" ELSE "degraded"

\* The metrics block: three COUNT(*) queries in one session, None on any fault.
db_metrics(d) == IF d = "up" THEN Some(RowCounts) ELSE None

\* The details block: a second introspection of the registry, None on any fault.
tframex_details(reg) ==
    LET got == get_tframex_app_instance(reg)
    IN IF got.fault THEN None
       ELSE Some([agents   |-> got.app.agents,
                  tools    |-> got.app.tools,
                  patterns |-> <<"sequential", "parallel", "router", "discussion">>])

component_status(ok) == IF ok THEN "healthy" ELSE "unhealthy"

detailed_response(l, details) ==
    [endpoint   |-> "detailed",
     code       |-> detailed_status_code(l),
     status     |-> detailed_status(l),
     uptime     |-> [seconds |-> Round2(l.uptime),
                     human_readable |-> human_readable(l.uptime)],
     components |->
        [database |-> [status  |-> component_status(l.db[1]),
                       message |-> l.db[2],
                       metrics |-> l.db_metrics],
         redis    |-> [status  |-> component_status(l.redis[1]),
                       message |-> l.redis[2]],
         tframex  |-> [status  |-> component_status(l.tframex[1]),
                       message |-> l.tframex[2],
                       details |-> details]]]

(***************************************************************************)
(* State                                                                   *)
(***************************************************************************)
NoResp == [endpoint |-> "none"]

\* A fault that left the view function: no response was composed.
Propagated == [endpoint |-> "raised"]

Unset == <<FALSE, "">>

NoLoc == [uptime |-> 0, db |-> Unset, redis |-> Unset, tframex |-> Unset,
          db_metrics |-> None]

Init ==
    /\ now = StartClock
    /\ START_TIME = now
    /\ db = "up"
    /\ redis = "up"
    /\ REDIS_PORT \in PortValues
    /\ registry = None
    /\ pc = "idle"
    /\ signal = "none"
    /\ loc = NoLoc
    /\ accesses = << >>
    /\ resp = NoResp
    /\ lastUptime = None

(***************************************************************************)
(* Requests and handlers                                                   *)
(***************************************************************************)
\* A GET arrives. Only the handlers that call probes can be interrupted in one.
Request(e, s) ==
    /\ pc = "idle"
    /\ s # "none" => e \in {"ready", "detailed"}
    /\ pc' = e
    /\ signal' = s
    /\ resp' = NoResp
    /\ accesses' = << >>
    /\ loc' = NoLoc
    /\ UNCHANGED <<now, START_TIME, db, redis, REDIS_PORT, registry, lastUptime>>

health ==
    /\ pc = "health"
    /\ resp' = [endpoint |-> "health", code |-> 200, status |-> "healthy",
                uptime_seconds |-> Round2(Elapsed)]
    /\ lastUptime' = Some(Round2(Elapsed))
    /\ pc' = "idle"
    /\ UNCHANGED <<now, START_TIME, db, redis, REDIS_PORT, registry, signal, loc,
                   accesses>>

\* Variant: liveness pings the database first.
liveness_probing ==
    /\ pc = "live"
    /\ resp' = [endpoint |-> "live",
                code     |-> IF check_database_connection(db, FALSE).val[1]
                             THEN 200 ELSE 503,
                status   |-> "alive"]
    /\ accesses' = <<"database">>
    /\ pc' = "idle"
    /\ UNCHANGED <<now, START_TIME, db, redis, REDIS_PORT, registry, signal, loc,
                   lastUptime>>

liveness ==
    /\ pc = "live"
    /\ resp' = [endpoint |-> "live", code |-> 200, status |-> "alive"]
    /\ pc' = "idle"
    /\ UNCHANGED <<now, START_TIME, db, redis, REDIS_PORT, registry, signal, loc,
                   accesses, lastUptime>>

\* Variant: each call is wrapped, a raise becoming a generic failed result.
run_probes_wrapped ==
    LET wrap(x) == IF x.raised THEN <<FALSE, "check failed">> ELSE x.val
    IN [raised |-> FALSE, called |-> ProbeNames,
        checks |->
          [database |-> wrap(check_database_connection(db, signal = "database")),
           redis    |-> wrap(check_redis_connection(REDIS_PORT, redis, signal = "redis")),
           tframex  |-> wrap(check_tframex(registry, signal = "tframex"))]]

\* The three probe calls in source order, stopping at the first that raises.
run_probes ==
    LET d == check_database_connection(db, signal = "database")
        r == check_redis_connection(REDIS_PORT, redis, signal = "redis")
        t == check_tframex(registry, signal = "tframex")
    IN IF d.raised THEN [raised |-> TRUE, called |-> <<"database">>]
       ELSE IF r.raised THEN [raised |-> TRUE, called |-> <<"database", "redis">>]
       ELSE IF t.raised THEN [raised |-> TRUE, called |-> ProbeNames]
       ELSE [raised |-> FALSE, called |-> ProbeNames,
             checks |-> [database |-> d.val, redis |-> r.val, tframex |-> t.val]]

readiness ==
    /\ pc = "ready"
    /\ accesses' = run_probes.called
    /\ resp' = IF run_probes.raised THEN Propagated
               ELSE readiness_response(run_probes.checks)
    /\ pc' = "idle"
    /\ UNCHANGED <<now, START_TIME, db, redis, REDIS_PORT, registry, signal, loc,
                   lastUptime>>

\* Lines 101-106: the clock is read, then the probes are called.
detailed_health_probes ==
    /\ pc = "detailed"
    /\ accesses' = run_probes.called
    /\ IF run_probes.raised
       THEN /\ resp' = Propagated
            /\ pc' = "idle"
            /\ loc' = NoLoc
       ELSE /\ resp' = resp
            /\ pc' = "detailed_metrics"
            /\ loc' = [uptime     |-> Elapsed,
                       db         |-> run_probes.checks.database,
                       redis      |-> run_probes.checks.redis,
                       tframex    |-> run_probes.checks.tframex,
                       db_metrics |-> None]
    /\ UNCHANGED <<now, START_TIME, db, redis, REDIS_PORT, registry, signal,
                   lastUptime>>

\* Lines 108-121.
detailed_health_metrics ==
    /\ pc = "detailed_metrics"
    /\ loc' = [loc EXCEPT !.db_metrics = db_metrics(db)]
    /\ accesses' = Append(accesses, "db_metrics")
    /\ pc' = "detailed_details"
    /\ UNCHANGED <<now, START_TIME, db, redis, REDIS_PORT, registry, signal, resp,
                   lastUptime>>

\* Lines 123-168.
detailed_health_compose ==
    /\ pc = "detailed_details"
    /\ resp' = detailed_response(loc, tframex_details(registry))
    /\ lastUptime' = Some(Round2(loc.uptime))
    /\ accesses' = Append(accesses, "tframex_details")
    /\ loc' = NoLoc
    /\ pc' = "idle"
    /\ UNCHANGED <<now, START_TIME, db, redis, REDIS_PORT, registry, signal>>

(***************************************************************************)
(* The environment                                                         *)
(***************************************************************************)
Tick ==
    /\ now < MaxClock
    /\ now' = now + 1
    /\ UNCHANGED <<START_TIME, db, redis, REDIS_PORT, registry, pc, signal, loc,
                   accesses, resp, lastUptime>>

\* The wall clock is set back (NTP step, operator).
ClockSetBack ==
    /\ \E t \in 0..(now - 1) : now' = t
    /\ UNCHANGED <<START_TIME, db, redis, REDIS_PORT, registry, pc, signal, loc,
                   accesses, resp, lastUptime>>

DbChange ==
    /\ \E s \in DbStates \ {db} : db' = s
    /\ UNCHANGED <<now, START_TIME, redis, REDIS_PORT, registry, pc, signal, loc,
                   accesses, resp, lastUptime>>

RedisChange ==
    /\ \E s \in RedisStates \ {redis} : redis' = s
    /\ UNCHANGED <<now, START_TIME, db, REDIS_PORT, registry, pc, signal, loc,
                   accesses, resp, lastUptime>>

\* Another thread finishes building the application singleton.
InitRegistry ==
    /\ registry = None
    /\ registry' = Some(TFrameXApp)
    /\ UNCHANGED <<now, START_TIME, db, redis, REDIS_PORT, pc, signal, loc,
                   accesses, resp, lastUptime>>

Next ==
    \/ \E e \in Endpoints, s \in InterruptAt : Request(e, s)
    \/ health
    \/ liveness
    \/ readiness
    \/ detailed_health_probes
    \/ detailed_health_metrics
    \/ detailed_health_compose
    \/ Tick
    \/ ClockSetBack
    \/ DbChange
    \/ RedisChange
    \/ InitRegistry

Spec == Init /\ [][Next]_vars

(***************************************************************************)
(* Uptime breakdown: the detailed endpoint at whole-second uptimes          *)
(***************************************************************************)
UptimeInputs ==
    (0..MaxUptimeSec)
    \cup {h * 3600 + r : h \in 0..MaxHours, r \in {0, 59, 3599}}

InitUptime ==
    /\ START_TIME = StartClock
    /\ \E u \in UptimeInputs : now = START_TIME + u * UnitsPerSecond
    /\ db = "up"
    /\ redis = "up"
    /\ REDIS_PORT = "unset"
    /\ registry = Some(TFrameXApp)
    /\ pc = "idle"
    /\ signal = "none"
    /\ loc = NoLoc
    /\ accesses = << >>
    /\ resp = NoResp
    /\ lastUptime = None

RequestDetailed == \E s \in InterruptAt : Request("detailed", s)

NextUptime ==
    \/ RequestDetailed
    \/ detailed_health_probes
    \/ detailed_health_metrics
    \/ detailed_health_compose

SpecUptime == InitUptime /\ [][NextUptime]_vars

(***************************************************************************)
(* Properties                                                              *)
(***************************************************************************)
Components == {"database", "redis", "tframex"}

\* The probes that the dependencies' current state forces to fail.
ForcedToFail ==
    {n \in Components :
        \/ n = "database" /\ db \in {"unreachable", "query_error"}
        \/ n = "redis" /\ (REDIS_PORT \notin {"unset", "6379"} \/ redis # "up")
        \/ n = "tframex" /\ registry = None}

\* C1: a readiness response has code 503 iff at least one of its three checks
\* failed and 200 iff all passed; its status is "ready" exactly with 200 and
\* "not_ready" exactly with 503.
C1_ReadinessVerdict ==
    resp.endpoint = "ready" =>
        LET failed == \E n \in Components : resp.checks[n].status = "fail"
        IN /\ resp.code \in {200, 503}
           /\ resp.code = 503 <=> failed
           /\ resp.code = 200 <=> ~failed
           /\ resp.status = "ready" <=> resp.code = 200
           /\ resp.status = "not_ready" <=> resp.code = 503

C1_Witness ==
    /\ resp.endpoint = "ready"
    /\ resp.code = 503
    /\ resp.status = "not_ready"
    /\ resp.checks.database.status = "pass"
    /\ resp.checks.redis.status = "pass"
    /\ resp.checks.tframex.status = "fail"

\* C2: the checks map that readiness builds has exactly one entry for each of
\* the three probes, and an entry is a fail exactly for the probes that the
\* dependencies force to fail when the handler runs.
C2_OneEntryPerProbe ==
    [][(pc = "ready" /\ pc' = "idle" /\ signal = "none") =>
          /\ resp'.endpoint = "ready"
          /\ DOMAIN resp'.checks = Components
          /\ accesses' = ProbeNames
          /\ \A n \in Components :
                /\ resp'.checks[n].status \in {"pass", "fail"}
                /\ resp'.checks[n].status = "fail" <=> n \in ForcedToFail]_vars

C2_Witness ==
    /\ resp.endpoint = "ready"
    /\ resp.code = 503
    /\ redis = "refused"
    /\ resp.checks.redis.status = "fail"
    /\ resp.checks.database.status = "pass"
    /\ resp.checks.tframex.status = "pass"

\* C3: a detailed response has code 503 exactly when at least one of the three
\* components is unhealthy and 200 otherwise; its status is "healthy" iff all
\* are healthy, else "degraded"; code and verdict never disagree.
C3_DetailedVerdict ==
    resp.endpoint = "detailed" =>
        LET failed == \E n \in Components : resp.components[n].status = "unhealthy"
        IN /\ \A n \in Components :
                resp.components[n].status \in {"healthy", "unhealthy"}
           /\ resp.code = (IF failed THEN 503 ELSE 200)
           /\ resp.status = (IF failed THEN "degraded" ELSE "healthy")
           /\ resp.code = 200 <=> resp.status = "healthy"

C3_Witness ==
    /\ resp.endpoint = "detailed"
    /\ resp.code = 503
    /\ resp.status = "degraded"
    /\ resp.components.database.status = "healthy"
    /\ resp.components.redis.status = "healthy"
    /\ resp.components.tframex.status = "unhealthy"

\* C4: a liveness request answers 200 "alive" whatever the state of the
\* dependencies, makes no dependency access and changes nothing but the response.
C4_LivenessFrame ==
    [][(pc = "live" /\ pc' # pc) =>
          /\ resp' = [endpoint |-> "live", code |-> 200, status |-> "alive"]
          /\ accesses' = << >>
          /\ UNCHANGED <<now, START_TIME, db, redis, REDIS_PORT, registry, loc,
                         lastUptime>>]_vars

C4_Witness ==
    /\ resp.endpoint = "live"
    /\ resp.code = 200
    /\ accesses = << >>
    /\ db = "unreachable"
    /\ redis = "refused"
    /\ registry = None

\* C5: the metrics step never fails the request and never touches the probe
\* outcomes: on a fault it leaves the metrics null; the code and verdict of the
\* response are those of the three probe outcomes alone, metrics present or not.
C5_MetricsNonFatal ==
    [][/\ (pc = "detailed_metrics" /\ pc' # pc) =>
            /\ pc' = "detailed_details"
            /\ resp' = NoResp
            /\ <<loc'.db, loc'.redis, loc'.tframex>> = <<loc.db, loc.redis, loc.tframex>>
            /\ db # "up" => loc'.db_metrics = None
       /\ (pc = "detailed_details" /\ pc' # pc) =>
            LET ok == loc.db[1] /\ loc.redis[1] /\ loc.tframex[1]
            IN /\ resp'.endpoint = "detailed"
               /\ resp'.code = (IF ok THEN 200 ELSE 503)
               /\ resp'.status = (IF ok THEN "healthy" ELSE "degraded")
               /\ resp'.components.database.metrics = loc.db_metrics]_vars

C5_Witness ==
    /\ resp.endpoint = "detailed"
    /\ resp.code = 200
    /\ resp.status = "healthy"
    /\ resp.components.database.metrics = None

\* C6: in every state of the dependencies each probe returns a (bool, message)
\* pair; a failing dependency (store unreachable or erring, cache refusing or
\* timing out, bad port value, registry not initialized) gives ok = false with
\* a message, never a raise.
C6_ProbesCatch ==
    LET d == check_database_connection(db, FALSE)
        r == check_redis_connection(REDIS_PORT, redis, FALSE)
        t == check_tframex(registry, FALSE)
        res == [database |-> d, redis |-> r, tframex |-> t]
    IN \A n \in Components :
          /\ ~res[n].raised
          /\ res[n].val[1] \in BOOLEAN
          /\ res[n].val[2] # ""
          /\ res[n].val[1] <=> n \notin ForcedToFail

C6_Witness ==
    /\ db = "query_error"
    /\ redis = "timeout"
    /\ REDIS_PORT = "abc"
    /\ registry = None
    /\ resp.endpoint = "ready"
    /\ \A n \in Components :
          resp.checks[n].status = "fail" /\ resp.checks[n].message # ""

C8_UptimeMonotonic ==
    [][/\ START_TIME' = START_TIME
       /\ (lastUptime # None /\ lastUptime' # None) =>
             lastUptime'[1] >= lastUptime[1]]_vars

\* C9: a detailed response that reports the registry component unhealthy has
\* code 503 and null registry details.
C9_UnhealthyNoDetails ==
    (resp.endpoint = "detailed" /\ resp.components.tframex.status = "unhealthy") =>
        /\ resp.code = 503
        /\ resp.components.tframex.details = None

\* C10: at a whole-second uptime u >= 0 the human_readable string is
\* "<H>h <M>m <S>s" with 0 <= M < 60, 0 <= S < 60 and H*3600 + M*60 + S = u.
C10_Breakdown ==
    (resp.endpoint = "detailed" /\ Elapsed >= 0 /\ Elapsed % UnitsPerSecond = 0) =>
        LET u == Elapsed \div UnitsPerSecond
        IN \E h \in 0..(MaxHours + 1), m \in 0..59 :
              LET s == u - h * 3600 - m * 60
              IN /\ s \in 0..59
                 /\ resp.uptime.human_readable =
                       ToString(h) \o "h " \o ToString(m) \o "m " \o ToString(s) \o "s"

C10_Witness ==
    /\ resp.endpoint = "detailed"
    /\ Elapsed = (25 * 3600 + 59 * 60 + 59) * UnitsPerSecond
    /\ resp.uptime.human_readable = "25h 59m 59s"

====
